---- MODULE Spec2Model ----
(***************************************************************************)
(* Invoice lifecycle of the Discord / LNBits role bot.                     *)
(*                                                                         *)
(*   backend/database.py  the pending_invoices table (SQLite)              *)
(*   backend/bot.py       slash command, websocket listener, confirmation  *)
(*                        task, periodic cleanup                           *)
(*                                                                         *)
(* Time is counted in ticks of 1/TicksPerSecond second.  `now` is the UTC  *)
(* wall clock; the process's local clock is `now` shifted by `tz` hours.   *)
(***************************************************************************)
EXTENDS Integers, Sequences, FiniteSets, Bags, TLC

VARIABLES
    now,        \* UTC wall clock, in ticks
    tz,         \* offset of the process's local time from UTC, in hours
    db,         \* the pending_invoices table: a set of rows
    issued,     \* payment_hash -> who asked for that invoice, and when (history)
    purged,     \* payment hashes of the rows cleanup has deleted (history)
    ret,        \* what the last direct call of a database.py function returned
    readyCount, \* how many times on_ready has fired
    nextSweep,  \* when cleanup_expired_invoices_task iterates next (NoTime: not running)
    lpc,        \* listener -> where that lnbits_websocket_listener coroutine stands
    tasks,      \* the bag of assign_role_after_payment tasks spawned so far
    roles,      \* members currently holding the role
    feedUp,     \* whether the provider's websocket endpoint is reachable
    par,        \* caller -> a take of database.py run outside the event loop
    msg,        \* payment update under classification; the update no listener received
    verdict,    \* what the listener's rule made of msg
    reply,      \* the last /command: who ran it, what the provider did, what was answered
    boots,      \* how many times the process has been started again
    srv         \* server.py: bot_thread, bot_process, the threads and the request handlers

storeVars == <<db, issued, purged>>
loopVars == <<readyCount, nextSweep, lpc, tasks, roles, feedUp>>
otherVars == <<ret, par, msg, verdict, reply, boots, srv>>
vars == <<now, tz, storeVars, loopVars, otherVars>>

----------------------------------------------------------------------------
(* Bounds of the model *)

NumHashes == 2
NumUsers == 2
MaxListeners == 1
MaxTasks == 3
NumCallers == 2
TicksPerSecond == 4
MaxFrac == 2
MaxPeriods == 1
MaxPeriodsExpiry == 13
MaxTasksListener == 2
MaxRestarts == 1
MaxReady == 2
MaxStatus == 599
NumHandlers == 2
MaxBotThreads == 2

(* Program constants *)

INVOICE_EXPIRY_HOURS == 1
CLEANUP_MINUTES == 5

SecondTicks == TicksPerSecond
MinuteTicks == 60 * SecondTicks
HourTicks == 60 * MinuteTicks
SweepTicks == CLEANUP_MINUTES * MinuteTicks

Hash(i) == "h" \o ToString(i)
Hashes == {Hash(i) : i \in 1..NumHashes}
\* a payment of the same wallet that this bot issued no invoice for
ForeignHash == "hx"
Users == 1..NumUsers
\* one listener coroutine per on_ready; MaxListeners of them are started in the
\* specifications that follow one session, MaxReady where on_ready fires again
Listeners == 1..MaxReady
Callers == 1..NumCallers
Handlers == 1..NumHandlers
BotThreads == 1..MaxBotThreads
CHANNEL_ID == 77
NoTime == -1
\* local offsets the process may run under
TZOffsets == {0, 1}

----------------------------------------------------------------------------
(* database.py *)

\* CURRENT_TIMESTAMP: UTC, "YYYY-MM-DD HH:MM:SS", no fraction of a second
CurrentTimestamp(t) == (t \div TicksPerSecond) * TicksPerSecond

\* datetime.now(): naive local time, with its fraction of a second
DatetimeNow(t, offset) == t + offset * HourTicks

Row(h, u, c, t) ==
    [payment_hash |-> h, user_id |-> u, channel_id |-> c, created_at |-> t]

RowsOf(table, h) == {r \in table : r.payment_hash = h}

NoRow == [payment_hash |-> "", user_id |-> 0, channel_id |-> 0, created_at |-> NoTime]

\* add_pending_invoice: INSERT under PRIMARY KEY(payment_hash); IntegrityError -> False
AddOk(table, h) == RowsOf(table, h) = {}

\* the values bound to user_id and channel_id in the wrong order
AddPendingInvoice_Swapped(table, h, u, c, t) ==
    IF AddOk(table, h)
    THEN table \cup {Row(h, c, u, CurrentTimestamp(t))}
    ELSE table

\* INSERT OR REPLACE: a second insert overwrites the row
AddPendingInvoice_Replace(table, h, u, c, t) ==
    (table \ RowsOf(table, h)) \cup {Row(h, u, c, CurrentTimestamp(t))}

AddPendingInvoice(table, h, u, c, t) ==
    IF AddOk(table, h)
    THEN table \cup {Row(h, u, c, CurrentTimestamp(t))}
    ELSE table

\* get_pending_invoice: the row's data, or None
GetPendingInvoice(table, h) ==
    IF RowsOf(table, h) = {} THEN NoRow ELSE CHOOSE r \in RowsOf(table, h) : TRUE

\* remove_pending_invoice: DELETE ... WHERE payment_hash = ?
\* DELETE ... WHERE user_id = the requester of h's row
RemovePendingInvoice_ByUser(table, h) ==
    {r \in table : \A x \in RowsOf(table, h) : r.user_id # x.user_id}

RemovePendingInvoice(table, h) == table \ RowsOf(table, h)

\* get_all_pending_invoices
GetAllPendingInvoices(table) == table

\* cleanup_expired_invoices: DELETE ... WHERE created_at < now() - 1 hour
ExpiryTime(t, offset) == DatetimeNow(t, offset) - INVOICE_EXPIRY_HOURS * HourTicks

Expired(table, t, offset) == {r \in table : r.created_at < ExpiryTime(t, offset)}

CleanupExpiredInvoices(table, t, offset) == table \ Expired(table, t, offset)

CleanupRemoved(table, t, offset) == Cardinality(Expired(table, t, offset))

----------------------------------------------------------------------------
(* JSON values as json.loads delivers them to Python *)

JVal(t, b, n, s) == [t |-> t, b |-> b, n |-> n, s |-> s]
JMissing == JVal("missing", FALSE, 0, "")
JNull == JVal("null", FALSE, 0, "")
JBool(b) == JVal("bool", b, 0, "")
JInt(n) == JVal("int", FALSE, n, "")
JStr(s) == JVal("str", FALSE, 0, s)

\* dict.get(key): None when the key is absent
PyGet(v) == IF v.t = "missing" THEN JNull ELSE v

\* dict.get(key, default)
PyGetDefault(v, d) == IF v.t = "missing" THEN d ELSE v

\* truth value of a Python object
Truthy(v) ==
    CASE v.t = "bool" -> v.b
      [] v.t = "int" -> v.n # 0
      [] v.t = "str" -> v.s # ""
      [] OTHER -> FALSE

\* a or b
PyOr(a, b) == IF Truthy(a) THEN a ELSE b

\* v == "success"
PyEqStr(v, s) == v.t = "str" /\ v.s = s

\* v is True, v is False
PyIsTrue(v) == v.t = "bool" /\ v.b
PyIsFalse(v) == v.t = "bool" /\ ~v.b

\* v > 0: "yes", "no", or "TypeError" (None > 0, "1000" > 0)
PyGtZero(v) ==
    CASE v.t = "int" -> IF v.n > 0 THEN "yes" ELSE "no"
      [] v.t = "bool" -> IF v.b THEN "yes" ELSE "no"
      [] OTHER -> "TypeError"

----------------------------------------------------------------------------
(* bot.py, lnbits_websocket_listener: the rule applied to data["payment"] *)

\* the two fields in the other order
MatchingId_HashFirst(p) == PyOr(PyGet(p.payment_hash), PyGet(p.checking_id))

\* h = p.get("checking_id") or p.get("payment_hash")
MatchingId(p) == PyOr(PyGet(p.checking_id), PyGet(p.payment_hash))

\* amt = p.get("amount", 0)
Amount(p) == PyGetDefault(p.amount, JInt(0))

\* truth values tested where the code tests identity with True and False
IsPaid_Truthy(p) ==
    \/ PyEqStr(PyGet(p.status), "success")
    \/ Truthy(PyGet(p.paid))
    \/ ~Truthy(PyGet(p.pending))

\* is_paid = (status == "success") or (p.get("paid") is True) or (p.get("pending") is False)
IsPaid(p) ==
    \/ PyEqStr(PyGet(p.status), "success")
    \/ PyIsTrue(PyGet(p.paid))
    \/ PyIsFalse(PyGet(p.pending))

\* amt >= 0 written for amt > 0
Dispatch_NonNegative(p) ==
    IF ~Truthy(MatchingId(p)) THEN "ignore"
    ELSE IF ~IsPaid(p) THEN "ignore"
    ELSE IF PyGtZero(Amount(p)) = "TypeError" THEN "error"
    ELSE IF Amount(p).n >= 0 THEN "spawn"
    ELSE "ignore"

\* if h and is_paid and amt > 0: "spawn", else "ignore"; "error" when amt > 0 raises
Dispatch(p) ==
    IF ~Truthy(MatchingId(p)) THEN "ignore"
    ELSE IF ~IsPaid(p) THEN "ignore"
    ELSE IF PyGtZero(Amount(p)) = "TypeError" THEN "error"
    ELSE IF PyGtZero(Amount(p)) = "yes" THEN "spawn"
    ELSE "ignore"

Payment(c, h, a, s, pd, pn) ==
    [checking_id |-> c, payment_hash |-> h, amount |-> a, status |-> s,
     paid |-> pd, pending |-> pn]

NoPayment == Payment(JMissing, JMissing, JMissing, JMissing, JMissing, JMissing)

\* what the feed may put in each field
IdValues == {JMissing, JNull, JStr("")} \cup {JStr(h) : h \in Hashes \cup {ForeignHash}}
AmountValues == {JMissing, JNull, JInt(0), JInt(-1000), JInt(1000), JStr("1000")}
StatusValues == {JMissing, JStr("success"), JStr("pending")}
PaidValues == {JMissing, JBool(TRUE), JBool(FALSE), JInt(1)}
PendingValues == {JMissing, JBool(TRUE), JBool(FALSE), JInt(0)}

Payments ==
    {Payment(c, h, a, s, pd, pn) :
        c \in IdValues, h \in IdValues, a \in AmountValues,
        s \in StatusValues, pd \in PaidValues, pn \in PendingValues}

\* websocket frames: not JSON, JSON that is no object, an object without a
\* "payment" dict, or a payment update
Frame(k, p) == [kind |-> k, payment |-> p]
OtherFrames == {Frame(k, NoPayment) : k \in {"garbage", "nonobject", "nopayment"}}
Frames == OtherFrames \cup {Frame("payment", p) : p \in Payments}

\* the hashes a frame names
NamedHashes(f) ==
    {v.s : v \in {x \in {f.payment.checking_id, f.payment.payment_hash} : x.t = "str" /\ x.s # ""}}

\* what handling one frame does: "spawn", "ignore" (debug/warning log), "error"
\* (exception caught at the inner except Exception)
HandleFrame(f) ==
    CASE f.kind = "garbage" -> "error"
      [] f.kind = "nonobject" -> "error"
      [] f.kind = "nopayment" -> "ignore"
      [] OTHER -> Dispatch(f.payment)

----------------------------------------------------------------------------
(* State after the process has started: module body of bot.py, init_db() *)

NotIssued == [user |-> 0, at |-> NoTime]
IssuedHashes == {h \in Hashes : issued[h].user # 0}
IdleCaller == [pc |-> "idle", h |-> "", user |-> 0]
NoCall == [op |-> "none", h |-> "", ok |-> FALSE, n |-> 0]

\* what happens to one /command: kind is "no_channel" (bot.get_channel gives
\* None), an exception of requests.post, "response" (an HTTP response with a
\* JSON object as body) or "notjson"; post is whether the channel message
\* of line 300 goes out
CommandInput(k, st, pr, h, post) ==
    [kind |-> k, status |-> st, bolt11 |-> pr, payment_hash |-> h, post |-> post]
NoInput == CommandInput("none", 0, JMissing, JMissing, FALSE)
NoReply == [user |-> 0, input |-> NoInput, text |-> "none", posted |-> FALSE]

\* server.py as imported: bot_process = None, bot_thread = None, no thread
\* object yet, every request handler idle
NoServer ==
    [bot_thread |-> 0, bot_process |-> 0,
     thread |-> [t \in BotThreads |-> "unborn"],
     req |-> [r \in Handlers |-> "idle"],
     answer |-> [r \in Handlers |-> "none"]]

Init ==
    /\ now = 0
    /\ tz \in TZOffsets
    /\ db = {}
    /\ issued = [h \in Hashes |-> NotIssued]
    /\ purged = {}
    /\ readyCount = 0
    /\ nextSweep = NoTime
    /\ lpc = [l \in Listeners |-> "none"]
    /\ tasks = EmptyBag
    /\ roles = {}
    /\ feedUp = TRUE
    /\ ret = NoCall
    /\ par = [c \in Callers |-> IdleCaller]
    /\ msg = NoPayment
    /\ verdict = "none"
    /\ reply = NoReply
    /\ boots = 0
    /\ srv = NoServer

----------------------------------------------------------------------------
(* The wall clock.  Events happen within the first MaxFrac ticks after a   *)
(* multiple of the cleanup period; a running cleanup timer fires on time.  *)

TimerAllows(t) == nextSweep = NoTime \/ t <= nextSweep

Tick ==
    /\ (now % SweepTicks) < MaxFrac
    /\ TimerAllows(now + 1)
    /\ now' = now + 1
    /\ UNCHANGED <<tz, storeVars, loopVars, otherVars>>

NextPeriod(maxPeriods) ==
    LET t == ((now \div SweepTicks) + 1) * SweepTicks IN
    /\ t <= maxPeriods * SweepTicks
    /\ TimerAllows(t)
    /\ now' = t
    /\ UNCHANGED <<tz, storeVars, loopVars, otherVars>>

----------------------------------------------------------------------------
(* bot.py, dynamic_command *)

\* lines 266-281: the provider answered 201 with bolt11 and payment_hash h
DynamicCommand(u, h) ==
    /\ db' = AddPendingInvoice(db, h, u, CHANNEL_ID, now)
    /\ issued' = IF AddOk(db, h) THEN [issued EXCEPT ![h] = [user |-> u, at |-> now]]
                 ELSE issued
    /\ UNCHANGED <<now, tz, purged, loopVars, otherVars>>

\* lines 233-236, 247-277: every way the command ends before add_pending_invoice
CommandFailures ==
    {"no_channel", "connection_error", "timeout", "exception", "status_401",
     "status_403", "status_404", "status_500", "status_400", "no_bolt11",
     "no_payment_hash"}

DynamicCommandFails(u, why) ==
    /\ why \in CommandFailures
    /\ UNCHANGED vars

\* the tests in another order: every code from 400 on taken for an outage
GetLnbitsErrorMessage_From400(st) ==
    IF st >= 400 THEN "server_error"
    ELSE IF st = 401 THEN "authentication_failed"
    ELSE IF st = 403 THEN "permission_denied"
    ELSE IF st = 404 THEN "endpoint_not_found"
    ELSE "lnbits_error"

\* get_lnbits_error_message: which text a status code gets
GetLnbitsErrorMessage(st) ==
    IF st >= 500 THEN "server_error"
    ELSE IF st = 401 THEN "authentication_failed"
    ELSE IF st = 403 THEN "permission_denied"
    ELSE IF st = 404 THEN "endpoint_not_found"
    ELSE "lnbits_error"

\* every 2xx status taken for success
StatusOk_2xx(st) == st \in 200..299

\* line 266: resp.status_code != 201 is the failure
StatusOk(st) == st = 201

\* lines 280-304: add_pending_invoice's return value is dropped; the answer
\* depends only on whether the channel message went out
AnswerAfterAdd(added, post) == IF post THEN "invoice_posted" ELSE "failed_to_post"

\* the whole of dynamic_command: "store" when it gets to line 280, else the
\* answer it sends before it returns; "raised" when resp.json() raises and the
\* handler answers nothing
CommandOutcome(in) ==
    IF in.kind = "no_channel" THEN "channel_misconfigured"
    ELSE IF in.kind = "connection_error" THEN "cannot_connect"
    ELSE IF in.kind = "timeout" THEN "timed_out"
    ELSE IF in.kind = "exception" THEN "could_not_create"
    ELSE IF ~StatusOk(in.status) THEN GetLnbitsErrorMessage(in.status)
    ELSE IF in.kind = "notjson" THEN "raised"
    ELSE IF ~Truthy(PyGet(in.bolt11)) \/ ~Truthy(PyGet(in.payment_hash))
         THEN "invalid_invoice_data"
    ELSE "store"

ErrorAnswers ==
    {"channel_misconfigured", "cannot_connect", "timed_out", "could_not_create",
     "server_error", "authentication_failed", "permission_denied",
     "endpoint_not_found", "lnbits_error", "invalid_invoice_data"}

DynamicCommandCall(u, in) ==
    LET h == PyGet(in.payment_hash).s
        store == CommandOutcome(in) = "store"
        text == IF store THEN AnswerAfterAdd(AddOk(db, h), in.post)
                ELSE CommandOutcome(in)
    IN
    /\ db' = IF store THEN AddPendingInvoice(db, h, u, CHANNEL_ID, now) ELSE db
    /\ issued' = IF store /\ AddOk(db, h)
                 THEN [issued EXCEPT ![h] = [user |-> u, at |-> now]]
                 ELSE issued
    /\ reply' = [user |-> u, input |-> in, text |-> text,
                 posted |-> store /\ in.post]
    /\ UNCHANGED <<now, tz, purged, loopVars, ret, par, msg, verdict, boots, srv>>

\* what the provider and Discord may do to a command
FailStatuses == {200, 400, 401, 403, 404, 500, 503}
CommandInputs ==
    {CommandInput(k, 0, JMissing, JMissing, FALSE) :
        k \in {"no_channel", "connection_error", "timeout", "exception"}}
    \cup {CommandInput(k, st, JMissing, JMissing, FALSE) :
        k \in {"response", "notjson"}, st \in FailStatuses}
    \cup {CommandInput("response", st, JStr("lnbc"), JStr(Hash(1)), TRUE) :
        st \in FailStatuses}
    \cup {CommandInput("notjson", 201, JMissing, JMissing, FALSE)}
    \cup {CommandInput("response", 201, pr, h, post) :
        pr \in {JMissing, JStr(""), JStr("lnbc")},
        h \in {JMissing, JNull, JStr("")} \cup {JStr(x) : x \in Hashes},
        post \in BOOLEAN}

----------------------------------------------------------------------------
(* bot.py, on_ready and cleanup_expired_invoices_task *)

\* lines 204-214, after the await of bot.tree.sync()
OnReadyUpTo(n) ==
    /\ readyCount < n
    /\ readyCount' = readyCount + 1
    /\ nextSweep' = IF nextSweep = NoTime THEN now ELSE nextSweep
    /\ lpc' = [lpc EXCEPT ![readyCount + 1] = "connect"]
    /\ UNCHANGED <<now, tz, storeVars, tasks, roles, feedUp, otherVars>>

OnReady == OnReadyUpTo(MaxListeners)

\* the body without its try/except: an iteration that raises ends the loop
AfterIteration_StopsOnError(ok) == IF ok THEN nextSweep + SweepTicks ELSE NoTime

\* lines 182-190: the exception is caught in the body, so tasks.loop schedules
\* the next iteration whatever the body did
AfterIteration(ok) == nextSweep + SweepTicks

\* one iteration of the tasks.loop(minutes=5); ok = FALSE: the call raised
CleanupExpiredInvoicesTask(ok) ==
    /\ nextSweep # NoTime
    /\ now >= nextSweep
    /\ db' = IF ok THEN CleanupExpiredInvoices(db, now, tz) ELSE db
    /\ purged' = IF ok THEN purged \cup {r.payment_hash : r \in Expired(db, now, tz)}
                 ELSE purged
    /\ nextSweep' = AfterIteration(ok)
    /\ UNCHANGED <<now, tz, issued, readyCount, lpc, tasks, roles, feedUp, otherVars>>

----------------------------------------------------------------------------
(* bot.py, lnbits_websocket_listener *)

FeedDown ==
    /\ feedUp
    /\ feedUp' = FALSE
    /\ UNCHANGED <<now, tz, storeVars, readyCount, nextSweep, lpc, tasks, roles, otherVars>>

FeedBack ==
    /\ ~feedUp
    /\ feedUp' = TRUE
    /\ UNCHANGED <<now, tz, storeVars, readyCount, nextSweep, lpc, tasks, roles, otherVars>>

\* where the coroutine goes from each place
AfterConnect(ok) == IF ok THEN "recv" ELSE "sleep"
AfterConnectionClosed == "connect"
\* the coroutine returning after the sleep instead of looping
AfterSleep_Return == "returned"
AfterSleep == "connect"

ListenerMoves(l, to) ==
    /\ lpc' = [lpc EXCEPT ![l] = to]
    /\ UNCHANGED <<now, tz, storeVars, readyCount, nextSweep, tasks, roles, feedUp, otherVars>>

\* on a new connection, the provider asked about the rows still pending and a
\* task spawned for the one whose confirmation was emitted meanwhile
OnConnected_Poll(ok) ==
    IF ok /\ Truthy(MatchingId(msg)) /\ RowsOf(db, MatchingId(msg).s) # {}
    THEN SetToBag({[h |-> MatchingId(msg).s, pc |-> "start", user |-> 0]})
    ELSE EmptyBag

\* lines 149-151: a log line and then ws.recv(); nothing is asked of the
\* provider, no task is created
OnConnected(ok) == EmptyBag

\* line 149: websockets.connect returns, or raises into line 178
Connect(l) ==
    /\ lpc[l] = "connect"
    /\ lpc' = [lpc EXCEPT ![l] = AfterConnect(feedUp)]
    /\ tasks' = tasks (+) OnConnected(feedUp)
    /\ UNCHANGED <<now, tz, storeVars, readyCount, nextSweep, roles, feedUp, otherVars>>

\* lines 172-174: recv raises ConnectionClosed; break leaves the async with
ConnectionClosed(l) ==
    /\ lpc[l] = "recv"
    /\ ListenerMoves(l, AfterConnectionClosed)

\* line 180: asyncio.sleep(15) returns
SleepDone(l) ==
    /\ lpc[l] = "sleep"
    /\ ListenerMoves(l, AfterSleep)

\* lines 153-171, 175-177: one frame received and handled
NewTask(h) == [h |-> h, pc |-> "start", user |-> 0]
SpawnTask(h) == tasks (+) SetToBag({NewTask(h)})
Moved(t, u) == (tasks (-) SetToBag({t})) (+) SetToBag({u})

\* an exception of the handling reaching the outer except of line 178
AfterFrame_Escapes(outcome) == IF outcome = "error" THEN "sleep" ELSE "recv"

\* the confirmation awaited in the read loop instead of create_task
AfterFrame_Awaits(outcome) == IF outcome = "spawn" THEN "await_grant" ELSE "recv"

\* lines 151-177: logged and ignored, caught by the inner except, or handed to
\* create_task, the loop is back at ws.recv() on the same connection
AfterFrame(outcome) == "recv"

\* the feed reports payments of invoices that exist, and of foreign ones
Recv(l, f) ==
    /\ lpc[l] = "recv"
    /\ feedUp
    /\ NamedHashes(f) \subseteq IssuedHashes \cup {ForeignHash}
    /\ IF HandleFrame(f) = "spawn"
       THEN /\ BagCardinality(tasks) < MaxTasks
            /\ tasks' = SpawnTask(MatchingId(f.payment).s)
       ELSE tasks' = tasks
    /\ lpc' = [lpc EXCEPT ![l] = AfterFrame(HandleFrame(f))]
    /\ UNCHANGED <<now, tz, storeVars, readyCount, nextSweep, roles, feedUp, otherVars>>

----------------------------------------------------------------------------
(* bot.py, assign_role_after_payment: one action per stretch between awaits *)

\* the check of line 127 left out: add_roles for every resolved member
AfterMember_Always(u, env) == IF env = "no_role" THEN "done" ELSE "add_roles"

\* lines 118-141 up to the next await, for a resolved member u
AfterMember(u, env) ==
    IF env = "no_role" THEN "done"
    ELSE IF u \notin roles THEN "add_roles"
    ELSE IF env = "no_channel" THEN "done"
    ELSE "send_already"

\* the pending invoices kept in a dict of the process, never dropped
TakeData_Remembered(table, h) ==
    IF h \in IssuedHashes
    THEN Row(h, issued[h].user, CHANNEL_ID, CurrentTimestamp(issued[h].at))
    ELSE NoRow

\* lines 94-100: what the task holds and what the table is afterwards
TakeData(table, h) == GetPendingInvoice(table, h)
\* the DELETE of line 100 left out
TakeTable_NoRemove(table, h) == table
TakeTable(table, h) ==
    IF GetPendingInvoice(table, h) = NoRow THEN table ELSE RemovePendingInvoice(table, h)

StartEnvs == {"ok", "no_guild", "uncached", "no_role", "no_channel"}

\* lines 91-113, from the task's first run to its first await
TaskStart(t, env) ==
    LET data == TakeData(db, t.h) IN
    /\ t.pc = "start"
    /\ db' = TakeTable(db, t.h)
    /\ tasks' = Moved(t,
           IF data = NoRow THEN [t EXCEPT !.pc = "done"]
           ELSE [h |-> t.h, user |-> data.user_id,
                 pc |-> IF env = "no_guild" THEN "done"
                        ELSE IF env = "uncached" THEN "fetch_member"
                        ELSE AfterMember(data.user_id, env)])
    /\ UNCHANGED <<now, tz, issued, purged, readyCount, nextSweep, lpc, roles, feedUp,
                   otherVars>>

FetchEnvs == {"ok", "fail", "no_role", "no_channel"}

\* line 113 returns or raises; lines 114-141 up to the next await
TaskFetchMember(t, env) ==
    /\ t.pc = "fetch_member"
    /\ tasks' = Moved(t, [t EXCEPT !.pc =
           IF env = "fail" THEN "done" ELSE AfterMember(t.user, env)])
    /\ UNCHANGED <<now, tz, storeVars, readyCount, nextSweep, lpc, roles, feedUp, otherVars>>

AddRolesEnvs == {"ok", "fail", "no_channel"}

\* line 129 returns or raises; lines 130-136
TaskAddRoles(t, env) ==
    /\ t.pc = "add_roles"
    /\ roles' = IF env = "fail" THEN roles ELSE roles \cup {t.user}
    /\ tasks' = Moved(t, [t EXCEPT !.pc = IF env = "ok" THEN "send_granted" ELSE "done"])
    /\ UNCHANGED <<now, tz, storeVars, readyCount, nextSweep, lpc, feedUp, otherVars>>

\* lines 132-134 or 139-141: the acknowledgment is sent, or sending raises
TaskSend(t) ==
    /\ t.pc \in {"send_granted", "send_already"}
    /\ tasks' = Moved(t, [t EXCEPT !.pc = "done"])
    /\ UNCHANGED <<now, tz, storeVars, readyCount, nextSweep, lpc, roles, feedUp, otherVars>>

----------------------------------------------------------------------------
(* The whole bot on one event loop *)

\* frames the feed sends in the whole-system specification: per hash a confirmed
\* payment and an unconfirmed one, a zero-amount one, and two that are no payment
SampleFrames ==
    {Frame("payment", Payment(JMissing, JStr(h), JInt(1000), JStr(s), JMissing, JMissing)) :
        h \in Hashes \cup {ForeignHash}, s \in {"success", "pending"}}
    \cup {Frame("payment", Payment(JStr(h), JStr(h), JInt(0), JMissing, JBool(TRUE), JMissing)) :
        h \in Hashes}
    \cup {Frame("garbage", NoPayment), Frame("nopayment", NoPayment)}

\* the provider hands out each payment hash once
Command == \E u \in Users, h \in Hashes \ IssuedHashes : DynamicCommand(u, h)
CommandFails == \E u \in Users, why \in CommandFailures : DynamicCommandFails(u, why)
Cleanup == \E ok \in BOOLEAN : CleanupExpiredInvoicesTask(ok)
Clock == NextPeriod(MaxPeriods)
Feed == FeedDown \/ FeedBack
ListenerStep == \E l \in Listeners : Connect(l) \/ ConnectionClosed(l) \/ SleepDone(l)
Receive == \E l \in Listeners, f \in SampleFrames : Recv(l, f)
TaskStep ==
    \E t \in BagToSet(tasks) :
        \/ \E env \in StartEnvs : TaskStart(t, env)
        \/ \E env \in FetchEnvs : TaskFetchMember(t, env)
        \/ \E env \in AddRolesEnvs : TaskAddRoles(t, env)
        \/ TaskSend(t)

Next ==
    \/ Command
    \/ CommandFails
    \/ OnReady
    \/ Cleanup
    \/ Clock
    \/ Feed
    \/ ListenerStep
    \/ Receive
    \/ TaskStep

Spec == Init /\ [][Next]_vars

----------------------------------------------------------------------------
(* One invoice from /command to the grant or the purge, on one event loop:
   any requester, the feed confirming it any number of times and reporting
   foreign payments, the listener reconnecting, cleanup running or failing *)

CommandInvoice == \E u \in Users : Hash(1) \notin IssuedHashes /\ DynamicCommand(u, Hash(1))

NextInvoice ==
    \/ CommandInvoice
    \/ OnReady
    \/ Cleanup
    \/ Clock
    \/ Feed
    \/ ListenerStep
    \/ Receive
    \/ TaskStep

SpecInvoice == Init /\ [][NextInvoice]_vars

----------------------------------------------------------------------------
(* What the tasks spawned so far have done *)

RECURSIVE CountIn(_, _)
CountIn(S, bag) ==
    IF S = {} THEN 0
    ELSE LET t == CHOOSE x \in S : TRUE IN CopiesIn(t, bag) + CountIn(S \ {t}, bag)

\* tasks for h that have run lines 94-100
Ran(h) == {t \in BagToSet(tasks) : t.h = h /\ t.pc # "start"}
\* those that found the row, and those that did not
Found(h) == {t \in Ran(h) : t.user # 0}
Absent(h) == {t \in Ran(h) : t.user = 0}
FoundCount(h) == CountIn(Found(h), tasks)
AbsentCount(h) == CountIn(Absent(h), tasks)
\* a task holding a row is on the grant path or has left it
Suspended(t) == t.pc \in {"fetch_member", "add_roles", "send_granted", "send_already"}

(* C1: whenever confirmation tasks for a hash whose row was inserted and not
   purged have run on the event loop, in any interleaving, exactly one of them
   found the row (and went on to the grant); every other one found it absent
   and holds no requester to grant to. *)
C1_ExactlyOneTake ==
    \A h \in Hashes :
        (h \in IssuedHashes /\ h \notin purged /\ Ran(h) # {}) =>
            /\ FoundCount(h) = 1
            /\ AbsentCount(h) = CountIn(Ran(h), tasks) - 1
            /\ \A t \in Absent(h) : t.pc = "done"

\* two more confirmations for the same hash ran while the first one was
\* suspended in its grant: one holder, two that found nothing
C1_Witness ==
    \E h \in Hashes :
        /\ h \notin purged
        /\ \E t \in Found(h) : Suspended(t)
        /\ AbsentCount(h) = 2

(* C4: end to end. A row stored for requester R under hash h is taken by at
   most one confirmation task, and by exactly one once a confirmation has run
   unless cleanup purged the row first; that task holds R as stored, the row
   is gone from then on, R has the role when the task sends its
   acknowledgment, and every member who got the role is the requester of a
   taken row: redelivered confirmations find nothing and grant nothing. *)
C4_EndToEnd ==
    /\ \A h \in Hashes :
        /\ FoundCount(h) <= 1
        /\ \A t \in Found(h) :
            /\ t.user = issued[h].user
            /\ RowsOf(db, h) = {}
            /\ t.pc \in {"send_granted", "send_already"} => t.user \in roles
        /\ (h \in IssuedHashes /\ Ran(h) # {} /\ Found(h) = {}) => h \in purged
        /\ h \notin IssuedHashes => Ran(h) = {}
    /\ Found(ForeignHash) = {}
    /\ roles \subseteq {issued[h].user : h \in {g \in Hashes : Found(g) # {}}}

\* R got the role from the one task that took the row, the acknowledgment is
\* out, and a redelivered confirmation for the same hash found nothing
C4_Witness ==
    \E h \in Hashes :
        /\ \E t \in Found(h) : t.pc = "done" /\ t.user = issued[h].user /\ t.user \in roles
        /\ AbsentCount(h) >= 1
        /\ RowsOf(db, h) = {}
        /\ h \notin purged

----------------------------------------------------------------------------
(* database.py called directly, one call at a time *)

Returned(op, h, ok, n) == [op |-> op, h |-> h, ok |-> ok, n |-> n]

StoreAdd(h, u) ==
    /\ db' = AddPendingInvoice(db, h, u, CHANNEL_ID, now)
    /\ ret' = Returned("add", h, AddOk(db, h), 0)
    /\ UNCHANGED <<now, tz, issued, purged, loopVars, par, msg, verdict, reply, boots, srv>>

StoreGet(h) ==
    /\ ret' = Returned("get", h, GetPendingInvoice(db, h) # NoRow,
                       GetPendingInvoice(db, h).user_id)
    /\ UNCHANGED <<now, tz, storeVars, loopVars, par, msg, verdict, reply, boots, srv>>

StoreRemove(h) ==
    /\ db' = RemovePendingInvoice(db, h)
    /\ ret' = Returned("remove", h, RowsOf(db, h) # {}, 0)
    /\ UNCHANGED <<now, tz, issued, purged, loopVars, par, msg, verdict, reply, boots, srv>>

StoreGetAll ==
    /\ ret' = Returned("list", "", TRUE, Cardinality(GetAllPendingInvoices(db)))
    /\ UNCHANGED <<now, tz, storeVars, loopVars, par, msg, verdict, reply, boots, srv>>

StoreCleanup ==
    /\ db' = CleanupExpiredInvoices(db, now, tz)
    /\ ret' = Returned("cleanup", "", TRUE, CleanupRemoved(db, now, tz))
    /\ UNCHANGED <<now, tz, issued, purged, loopVars, par, msg, verdict, reply, boots, srv>>

StoreCall ==
    \/ \E h \in Hashes, u \in Users : StoreAdd(h, u)
    \/ \E h \in Hashes : StoreGet(h) \/ StoreRemove(h)
    \/ StoreGetAll
    \/ StoreCleanup

\* calls are made at the cleanup period's instants
StoreClock == NextPeriod(MaxPeriods)

NextStore == StoreCall \/ StoreClock

SpecStore == Init /\ [][NextStore]_vars

(* C3: add_pending_invoice for a payment_hash that is in the table returns
   False and leaves the table as it was, the existing row with its user_id,
   channel_id and created_at included; for a payment_hash that is not in the
   table it returns True and the table gains exactly the one new row. *)
C3_DuplicateInsert ==
    [][\A h \in Hashes, u \in Users :
        StoreAdd(h, u) =>
            IF \E r \in db : r.payment_hash = h
            THEN ret'.ok = FALSE /\ db' = db
            ELSE /\ ret'.ok = TRUE
                 /\ db \subseteq db'
                 /\ Cardinality(db') = Cardinality(db) + 1
                 /\ \E r \in db' \ db :
                      r.payment_hash = h /\ r.user_id = u /\ r.channel_id = CHANNEL_ID]_vars

\* a second insert under a stored hash, at a later time, was refused and the
\* first row is still the one in the table
C3_Witness ==
    /\ ret.op = "add"
    /\ ret.ok = FALSE
    /\ \E r \in RowsOf(db, ret.h) : r.created_at < CurrentTimestamp(now)
    /\ Cardinality(db) = 1

----------------------------------------------------------------------------
(* The listener against a feed that goes down and comes back *)

\* the three confirmation signals one at a time, none of them, and all reversed
FlagSamples ==
    {<<JStr("success"), JMissing, JMissing>>, <<JMissing, JBool(TRUE), JMissing>>,
     <<JMissing, JMissing, JBool(FALSE)>>, <<JMissing, JMissing, JMissing>>,
     <<JStr("pending"), JBool(FALSE), JBool(TRUE)>>, <<JStr("pending"), JInt(1), JInt(0)>>}

ListenerFrames ==
    OtherFrames \cup
    {Frame("payment", Payment(c, h, a, fl[1], fl[2], fl[3])) :
        c \in {JMissing, JStr(""), JStr(Hash(1))},
        h \in {JMissing, JStr(Hash(1)), JStr(ForeignHash)},
        a \in AmountValues, fl \in FlagSamples}

\* one invoice, the one the frames name
CommandFirst == Hash(1) \notin IssuedHashes /\ DynamicCommand(1, Hash(1))

ReceiveListener ==
    /\ BagCardinality(tasks) < MaxTasksListener
    /\ \E l \in Listeners, f \in ListenerFrames : Recv(l, f)

NextListener ==
    \/ CommandFirst
    \/ OnReady
    \/ Feed
    \/ ListenerStep
    \/ ReceiveListener
    \/ TaskStep

SpecListener == Init /\ [][NextListener]_vars

\* the event loop runs a coroutine whose await has completed
ListenerFairness == \A l \in Listeners : WF_vars(Connect(l)) /\ WF_vars(SleepDone(l))

SpecLive == SpecListener /\ ListenerFairness

----------------------------------------------------------------------------
(* The rule of line 161 on its own: every payment update, classified once *)

InitClassify ==
    /\ now = 0
    /\ tz = 0
    /\ db = {}
    /\ issued = [h \in Hashes |-> NotIssued]
    /\ purged = {}
    /\ readyCount = 0
    /\ nextSweep = NoTime
    /\ lpc = [l \in Listeners |-> "none"]
    /\ tasks = EmptyBag
    /\ roles = {}
    /\ feedUp = TRUE
    /\ ret = NoCall
    /\ par = [c \in Callers |-> IdleCaller]
    /\ msg \in Payments
    /\ verdict = "none"
    /\ reply = NoReply
    /\ boots = 0
    /\ srv = NoServer

Classify ==
    /\ verdict = "none"
    /\ verdict' = IF IsPaid(msg) THEN "confirmed" ELSE "not confirmed"
    /\ UNCHANGED <<now, tz, storeVars, loopVars, ret, par, msg, reply, boots, srv>>

SpecClassify == InitClassify /\ [][Classify]_vars

----------------------------------------------------------------------------
(* Lines 94-100 run by callers that are not tasks of one event loop: two bot
   processes on the same bot.db, or threads.  Each statement is its own
   connection and transaction. *)

ParGet(c, h) ==
    LET data == GetPendingInvoice(db, h) IN
    /\ par[c].pc = "idle"
    /\ par' = [par EXCEPT ![c] =
           IF data = NoRow THEN [pc |-> "absent", h |-> h, user |-> 0]
           ELSE [pc |-> "found", h |-> h, user |-> data.user_id]]
    /\ UNCHANGED <<now, tz, storeVars, loopVars, ret, msg, verdict, reply, boots, srv>>

ParRemove(c) ==
    /\ par[c].pc = "found"
    /\ db' = RemovePendingInvoice(db, par[c].h)
    /\ par' = [par EXCEPT ![c].pc = "granting"]
    /\ UNCHANGED <<now, tz, issued, purged, loopVars, ret, msg, verdict, reply, boots, srv>>

ParStep == \E c \in Callers : (\E h \in IssuedHashes : ParGet(c, h)) \/ ParRemove(c)

NextParallel == Command \/ ParStep

SpecParallel == Init /\ [][NextParallel]_vars

----------------------------------------------------------------------------
(* One invoice followed over more than the expiry time, cleanup succeeding *)

CommandExpiry == CommandFirst
CleanupExpiry == CleanupExpiredInvoicesTask(TRUE)
ClockExpiry == Tick \/ NextPeriod(MaxPeriodsExpiry)
ListenerExpiry == Connect(1)
ReceiveExpiry ==
    /\ tasks = EmptyBag
    /\ Recv(1, Frame("payment",
               Payment(JMissing, JStr(Hash(1)), JInt(1000), JStr("success"), JMissing, JMissing)))
TaskExpiry ==
    \E t \in BagToSet(tasks) : TaskStart(t, "ok") \/ TaskAddRoles(t, "ok") \/ TaskSend(t)

NextExpiry ==
    \/ CommandExpiry
    \/ OnReady
    \/ CleanupExpiry
    \/ ClockExpiry
    \/ ListenerExpiry
    \/ ReceiveExpiry
    \/ TaskExpiry

SpecExpiry == Init /\ [][NextExpiry]_vars

----------------------------------------------------------------------------
(* Claims about the store under parallel callers and about expiry *)

TakenBy(h) == {c \in Callers : par[c].h = h /\ par[c].user # 0}

(* C2: the take of lines 94-100 is one indivisible step: of the parallel
   callers that take the same payment_hash, at most one obtains the row. *)
C2_AtomicTake == \A h \in Hashes : Cardinality(TakenBy(h)) <= 1

ExpiryTicks == INVOICE_EXPIRY_HOURS * HourTicks
Age(h) == now - issued[h].at

(* C5: a row inserted at T is in the table at every time before T + 1 hour,
   cleanup runs or not, unless a confirmation took it; a cleanup run removes
   the rows older than 1 hour, so a row is gone after a run later than
   T + 1 hour, keeps every younger row as it is, and counts what it removed. *)
C5_Listed ==
    \A h \in IssuedHashes :
        (Age(h) < ExpiryTicks /\ Found(h) = {}) => RowsOf(db, h) # {}

C5_Sweep ==
    CleanupExpiredInvoicesTask(TRUE) =>
        /\ db' \subseteq db
        /\ \A r \in db :
            /\ Age(r.payment_hash) > ExpiryTicks => r \notin db'
            /\ Age(r.payment_hash) < ExpiryTicks => r \in db'
        /\ CleanupRemoved(db, now, tz) = Cardinality(db) - Cardinality(db')

C5_ExpirySweep == []C5_Listed /\ [][C5_Sweep]_vars

(* C6: a confirmation task that runs when the row it matches is older than
   1 hour takes nothing and grants nothing, wherever the 5-minute cleanup
   stands. *)
C6_HardExpiry ==
    [][\A t \in BagToSet(tasks) :
        (TaskStart(t, "ok") /\ t.h \in IssuedHashes /\ Age(t.h) > ExpiryTicks) =>
            (Found(t.h)' = {} /\ roles' = roles)]_vars

----------------------------------------------------------------------------
(* Claims about the listener *)

ClaimConfirmed(p) ==
    \/ p.status = JStr("success")
    \/ p.paid = JBool(TRUE)
    \/ p.pending = JBool(FALSE)

(* C7: a payment update is classified as confirmed exactly when its status is
   the string "success", or its paid field is the boolean true, or its pending
   field is the boolean false; one signal suffices whatever the other two
   fields hold, and without any of the three it is not confirmed. *)
C7_ConfirmationRule ==
    verdict # "none" =>
        /\ (verdict = "confirmed") <=> ClaimConfirmed(msg)
        /\ msg.status = JStr("success") => verdict = "confirmed"
        /\ msg.paid = JBool(TRUE) => verdict = "confirmed"
        /\ msg.pending = JBool(FALSE) => verdict = "confirmed"

\* confirmed by pending = false alone, against a status and a paid flag that
\* say otherwise
C7_Witness ==
    /\ verdict = "confirmed"
    /\ msg.status = JStr("pending")
    /\ msg.paid = JBool(FALSE)
    /\ msg.pending = JBool(FALSE)

ClaimHasId(p) ==
    \/ p.checking_id.t = "str" /\ p.checking_id.s # ""
    \/ p.payment_hash.t = "str" /\ p.payment_hash.s # ""

ClaimPositive(p) == p.amount.t = "int" /\ p.amount.n > 0

ClaimForwardable(f) ==
    /\ f.kind = "payment"
    /\ ClaimHasId(f.payment)
    /\ ClaimConfirmed(f.payment)
    /\ ClaimPositive(f.payment)

(* C8: handling a frame spawns a confirmation task only for a payment update
   with a non-empty matching id, classified as confirmed, with an amount
   above zero; handling any frame leaves the table and the roles as they
   are, and a frame with amount 0, negative or missing, or without a matching
   id, leaves the tasks as they are too. *)
C8_ForwardOnlyPaid ==
    [][(tasks' # tasks \/ db' # db \/ roles' # roles) =>
        \A l \in Listeners, f \in ListenerFrames :
            Recv(l, f) => (ClaimForwardable(f) /\ db' = db /\ roles' = roles)]_vars

\* a confirmed update was forwarded: its task waits to run, the row is still
\* in the table, and the listener is back at recv
C8_Witness ==
    \E h \in Hashes :
        /\ CopiesIn(NewTask(h), tasks) = 1
        /\ RowsOf(db, h) # {}
        /\ \E l \in Listeners : lpc[l] = "recv"
        /\ feedUp

(* C9: a listener that leaves recv, or leaves connect without a connection,
   goes to the 15 second sleep before it connects again. *)
C9_BackoffBeforeRetry ==
    [][\A l \in Listeners :
        (\/ lpc[l] = "recv" /\ lpc'[l] # "recv"
         \/ lpc[l] = "connect" /\ lpc'[l] \notin {"connect", "recv"})
        => lpc'[l] = "sleep"]_vars

(* C10: a started listener never returns: it is connecting, receiving or
   sleeping; and from every state it gets to recv again unless the feed is
   unreachable, whatever failed before. *)
C10_Reconnect ==
    /\ \A l \in Listeners :
        [](lpc[l] \in {"none", "connect", "recv", "sleep"})
    /\ \A l \in Listeners :
        [](lpc[l] # "none" => <>(lpc[l] = "recv" \/ ~feedUp))
    /\ [][\A l \in Listeners : lpc[l] # "none" => lpc'[l] # "none"]_vars

\* in the backoff sleep after failed attempts, a task of an earlier connection
\* still there, while the feed is reachable again
C10_Witness ==
    \E l \in Listeners :
        /\ lpc[l] = "sleep"
        /\ feedUp
        /\ tasks # EmptyBag

----------------------------------------------------------------------------
(* /command against every answer of the provider, stored hashes included *)

CommandCall == \E u \in Users, in \in CommandInputs : DynamicCommandCall(u, in)

NextCommand == CommandCall

SpecCommand == Init /\ [][NextCommand]_vars

\* the provider answered 201 with a payment request and a payment hash
ClaimProviderSuccess(in) ==
    /\ in.kind = "response"
    /\ in.status = 201
    /\ in.bolt11.t = "str" /\ in.bolt11.s # ""
    /\ in.payment_hash.t = "str" /\ in.payment_hash.s # ""

\* a connection error, a timeout, a non-201 status, or a field missing
ClaimProviderFailure(in) ==
    \/ in.kind \in {"connection_error", "timeout"}
    \/ in.kind \in {"response", "notjson"} /\ in.status # 201
    \/ in.kind = "response" /\ in.status = 201 /\ ~ClaimProviderSuccess(in)

(* C11: /command changes the table only when the provider answered 201 with
   both bolt11 and payment_hash; on a connection error, a timeout, a non-201
   status or a missing field it answers the requester with an error message
   and leaves the table as it was. *)
C11_StoreOnlyOnSuccess ==
    [][reply' # reply =>
        /\ db' # db => ClaimProviderSuccess(reply'.input)
        /\ ClaimProviderFailure(reply'.input) =>
            (db' = db /\ reply'.text \in ErrorAnswers /\ ~reply'.posted)]_vars

\* a command answered with an error after a 200 response that carried both
\* fields, while an earlier command's row is in the table
C11_Witness ==
    /\ reply.input.status = 200
    /\ reply.input.bolt11 = JStr("lnbc")
    /\ reply.text = "lnbits_error"
    /\ Cardinality(db) = 1

(* C12: when add_pending_invoice reports a duplicate (the hash the provider
   returned is in the table already), /command answers with an error and does
   not post the invoice. *)
C12_DuplicateAborts ==
    [][(reply' # reply /\ CommandOutcome(reply'.input) = "store"
          /\ ~AddOk(db, reply'.input.payment_hash.s)) =>
        (reply'.text \in ErrorAnswers \cup {"failed_to_post"} /\ ~reply'.posted)]_vars

----------------------------------------------------------------------------
(* The process ending (shutdown(), or a crash) and being started again.
   bot.db is a file: it is what the last committed statement left.  The
   event loop, its tasks, the listener and the cleanup timer are gone; the
   roles are Discord's and stay. *)

\* the table dropped and created anew at start
InitDb_Recreate(table) == {}

\* the rows of confirmations that were in flight put back at start
InitDb_Requeue(table) ==
    table \cup {Row(t.h, t.user, CHANNEL_ID, CurrentTimestamp(issued[t.h].at)) :
                   t \in {x \in BagToSet(tasks) : Suspended(x)}}

\* init_db: CREATE TABLE IF NOT EXISTS
InitDb(table) == table

\* a task that was between two awaits when the process ended never resumes
KillTask(t) == IF Suspended(t) THEN [t EXCEPT !.pc = "killed"] ELSE t

\* tasks that had not started leave no trace; the others are kept as history
KillAll(bag) ==
    LET ran == {t \in BagToSet(bag) : t.pc # "start"}
        img == {KillTask(t) : t \in ran}
    IN [x \in img |-> CountIn({t \in ran : KillTask(t) = x}, bag)]

Restart ==
    /\ boots < MaxRestarts
    /\ boots' = boots + 1
    /\ db' = InitDb(db)
    /\ readyCount' = 0
    /\ nextSweep' = NoTime
    /\ lpc' = [l \in Listeners |-> "none"]
    /\ tasks' = KillAll(tasks)
    /\ UNCHANGED <<now, tz, issued, purged, roles, feedUp, ret, par, msg, verdict, reply, srv>>

\* the invoice is created in the first run of the process
CommandBeforeRestart == boots = 0 /\ CommandInvoice

NextRestart ==
    \/ CommandBeforeRestart
    \/ OnReady
    \/ (\E l \in Listeners : Connect(l))
    \/ Receive
    \/ TaskStep
    \/ Restart

SpecRestart == Init /\ [][NextRestart]_vars

(* C13: a restart leaves the table as it was, rows and fields; a row is
   missing from the table only if a confirmation task took it, so a
   confirmation that arrives after the restart for an invoice created before
   it finds the row and goes on to the grant. *)
C13_SurvivesRestart ==
    /\ [][boots' # boots => db' = db]_vars
    /\ [](\A h \in IssuedHashes :
            /\ RowsOf(db, h) = {} => Found(h) # {}
            /\ \A r \in RowsOf(db, h) :
                 r = Row(h, issued[h].user, CHANNEL_ID, CurrentTimestamp(issued[h].at)))

\* after a restart, a confirmation task took the row of the invoice created
\* before it and is on the grant path
C13_Witness ==
    /\ boots = 1
    /\ \E h \in IssuedHashes : \E t \in Found(h) : Suspended(t) /\ RowsOf(db, h) = {}

----------------------------------------------------------------------------
(* Claims about errors and about dispatch in the read loop *)

\* a frame the rule does not forward: not JSON, no payment object, a field
\* missing or of the wrong type, not confirmed, no positive amount
Discarded(f) == HandleFrame(f) # "spawn"

(* C14: handling a frame, whatever it holds, leaves the listener at recv on
   the same connection; a frame that is not forwarded changes no row, no role
   and spawns nothing; and no step of a confirmation task, failing or not,
   moves the listener. *)
C14_ListenerSurvivesErrors ==
    [][(lpc' # lpc \/ tasks' # tasks \/ db' # db \/ roles' # roles) =>
        /\ \A l \in Listeners, f \in ListenerFrames :
             Recv(l, f) =>
                /\ lpc'[l] = "recv"
                /\ Discarded(f) => (tasks' = tasks /\ db' = db /\ roles' = roles)
        /\ TaskStep => (lpc' = lpc /\ feedUp' = feedUp)]_vars

\* the grant of an earlier confirmation failed (its task is done, the row is
\* consumed, the requester has no role), and the listener, still at recv, has
\* forwarded the next confirmation
C14_Witness ==
    \E l \in Listeners :
        /\ lpc[l] = "recv"
        /\ feedUp
        /\ \E t \in BagToSet(tasks) : t.pc = "done" /\ t.user # 0 /\ t.user \notin roles
        /\ \E t \in BagToSet(tasks) : t.pc = "start"

(* C15: forwarding a confirmation puts a task that has not run yet into the
   event loop and leaves the listener at recv, with no row and no role
   changed by the forwarding itself; the cleanup iteration that is due can
   run whatever the confirmation tasks are doing. *)
C15_DispatchDoesNotBlock ==
    /\ [][BagCardinality(tasks') > BagCardinality(tasks) \/ lpc' # lpc =>
            \A l \in Listeners, f \in SampleFrames :
                (Recv(l, f) /\ HandleFrame(f) = "spawn") =>
                    /\ lpc'[l] = "recv"
                    /\ CopiesIn(NewTask(MatchingId(f.payment).s), tasks') =
                         CopiesIn(NewTask(MatchingId(f.payment).s), tasks) + 1
                    /\ db' = db /\ roles' = roles]_vars
    /\ []((nextSweep # NoTime /\ now >= nextSweep) => ENABLED Cleanup)

\* one confirmation's task is waiting for Discord, the next confirmation has
\* been forwarded meanwhile, the listener is at recv and a cleanup is due
C15_Witness ==
    /\ \E t \in BagToSet(tasks) : t.pc \in {"fetch_member", "add_roles"}
    /\ \E t \in BagToSet(tasks) : t.pc = "start"
    /\ \E l \in Listeners : lpc[l] = "recv"
    /\ nextSweep # NoTime /\ now >= nextSweep

----------------------------------------------------------------------------
(* Claims about the order of delete and grant, and about absent rows *)

\* the tasks that went on past line 100 with a row
Granting == {t \in BagToSet(tasks) : t.pc # "start" /\ t.user # 0}

(* C16: a confirmation task that found its row has deleted it before its first
   await: whenever such a task is suspended on the member lookup, the role
   assignment or the acknowledgment, or has ended, the table holds no row for
   its payment_hash; and a role is only ever added by a task at add_roles
   whose row is gone. *)
C16_DeleteBeforeGrant ==
    /\ [](\A t \in Granting : RowsOf(db, t.h) = {})
    /\ [][roles' # roles =>
            \A u \in roles' \ roles :
                \E t \in BagToSet(tasks) :
                    t.pc = "add_roles" /\ t.user = u /\ RowsOf(db, t.h) = {}]_vars

\* the role has just been assigned for an invoice whose row is gone, the
\* acknowledgment not yet sent
C16_Witness ==
    \E t \in BagToSet(tasks) :
        /\ t.pc = "send_granted"
        /\ t.h \in IssuedHashes
        /\ t.user \in roles
        /\ RowsOf(db, t.h) = {}

(* C17: a confirmation task whose payment_hash has no row (never issued,
   taken by an earlier task, or purged by cleanup) returns in its first
   stretch: the table and the roles are as before, and the task ends without
   a requester, never reaching an await, a role assignment or a send. *)
C17_AbsentRowNoEffect ==
    /\ [][tasks' # tasks =>
            \A t \in BagToSet(tasks) :
                (t.pc = "start" /\ RowsOf(db, t.h) = {}
                     /\ \E env \in StartEnvs : TaskStart(t, env)) =>
                    /\ db' = db
                    /\ roles' = roles
                    /\ tasks' = Moved(t, [h |-> t.h, pc |-> "done", user |-> 0])]_vars
    /\ [](\A t \in BagToSet(tasks) : t.user = 0 => t.pc \in {"start", "done"})

\* tasks have ended on an absent row for an id never issued and for an id
\* whose row an earlier task had taken
C17_Witness ==
    /\ \E t \in Absent(ForeignHash) : t.pc = "done"
    /\ \E h \in IssuedHashes : Found(h) # {} /\ \E t \in Absent(h) : t.pc = "done"

\* a task has ended on an absent row for an id whose row cleanup had purged
C17_WitnessPurged ==
    \E h \in IssuedHashes :
        /\ h \in purged
        /\ Found(h) = {}
        /\ \E t \in Absent(h) : t.pc = "done"

----------------------------------------------------------------------------
(* Two invoices of one requester side by side: commands that succeed, fail,
   or come back with a payment_hash already stored; each hash and a foreign
   one confirmed once, frames that are not forwarded; the feed going down and
   coming back; cleanup running or failing.  What a task does after its first
   stretch does not touch the table: here the tasks end there. *)

FrameHashes == {Hash(1), Hash(2)}

CommandFrame ==
    \E h \in FrameHashes \ IssuedHashes : DynamicCommand(1, h)
CommandFailsFrame == \E why \in {"timeout", "status_500"} : DynamicCommandFails(2, why)
CommandRepeat ==
    /\ Hash(2) \in IssuedHashes
    /\ DynamicCommandCall(2, CommandInput("response", 201, JStr("lnbc"), JStr(Hash(2)), TRUE))
ListenerFrame == Connect(1) \/ ConnectionClosed(1) \/ SleepDone(1)
FramesFrame ==
    {Frame("payment", Payment(JMissing, JStr(h), JInt(1000), JStr("success"), JMissing, JMissing)) :
        h \in FrameHashes \cup {ForeignHash}}
    \cup {Frame("payment", Payment(JMissing, JStr(Hash(2)), JInt(1000), JStr("pending"), JMissing, JMissing)),
          Frame("payment", Payment(JMissing, JStr(Hash(2)), JInt(0), JStr("success"), JMissing, JMissing)),
          Frame("garbage", NoPayment), Frame("nopayment", NoPayment)}
ReceiveFrame ==
    \E f \in FramesFrame :
        /\ HandleFrame(f) = "spawn" =>
              \A t \in BagToSet(tasks) : t.h # MatchingId(f.payment).s
        /\ Recv(1, f)
TaskFrame == \E t \in BagToSet(tasks) : TaskStart(t, "no_guild")

NextFrame ==
    \/ CommandFrame
    \/ CommandFailsFrame
    \/ CommandRepeat
    \/ OnReady
    \/ Cleanup
    \/ Clock
    \/ Feed
    \/ ListenerFrame
    \/ ReceiveFrame
    \/ TaskFrame

SpecFrame == Init /\ [][NextFrame]_vars

\* the first stretch of a task confirming h runs in this step
TakenNow(h) ==
    \E t \in BagToSet(tasks) :
        t.pc = "start" /\ t.h = h /\ \E env \in StartEnvs : TaskStart(t, env)

\* a cleanup iteration runs in this step and row r is older than the threshold
SweptNow(r) == CleanupExpiredInvoicesTask(TRUE) /\ r \in Expired(db, now, tz)

(* C18: a row leaves the table only in the first stretch of a task confirming
   its own payment_hash, or in a cleanup iteration for which it is expired; a
   row that stays is the same row, and a row that appears is for a
   payment_hash that had none.  Every other step (commands for other hashes,
   failed or repeated commands, tasks for other hashes, frames that are not
   forwarded, the feed going down and up, on_ready's listing) leaves every
   row as it is. *)
C18_FrameOfRecords ==
    [][db' # db =>
        /\ \A r \in db \ db' : TakenNow(r.payment_hash) \/ SweptNow(r)
        /\ \A r \in db' \ db : RowsOf(db, r.payment_hash) = {}]_vars

\* the row of one invoice is as it was stored although another invoice of the
\* same requester was confirmed and taken, a foreign confirmation was handled,
\* a command came back with the stored payment_hash, time has passed with
\* cleanup running, and the feed is down
C18_Witness ==
    \E h1, h2 \in IssuedHashes :
        /\ h1 # h2
        /\ issued[h1].user = issued[h2].user
        /\ Found(h1) # {}
        /\ Absent(ForeignHash) # {}
        /\ reply.input.payment_hash = JStr(h2)
        /\ reply.user # issued[h2].user
        /\ now > issued[h2].at
        /\ nextSweep > now
        /\ ~feedUp
        /\ RowsOf(db, h2) =
             {Row(h2, issued[h2].user, CHANNEL_ID, CurrentTimestamp(issued[h2].at))}

----------------------------------------------------------------------------
(* Claims about what follows a consumed row *)

\* the task that took h's row has ended, by itself or with the process
Over(h) == Found(h) # {} /\ \A t \in Found(h) : t.pc \in {"done", "killed"}

(* C19: a row that a confirmation task took is never in the table again,
   whether the task's grant failed, the process ended under it, or the
   process was started again; at most one task ever holds the row of an
   invoice, later confirmations for it find nothing; and once that task has
   ended without the requester having the role, no later step gives the
   requester the role. *)
C19_NeverReinserted ==
    /\ [][\A h \in IssuedHashes :
            /\ RowsOf(db, h) = {} => RowsOf(db', h) = {}
            /\ (Over(h) /\ issued[h].user \notin roles) => issued[h].user \notin roles']_vars
    /\ [](\A h \in IssuedHashes : FoundCount(h) <= 1)

\* the process ended while the task that took the row was waiting for Discord;
\* after the restart the listener is connected again, a further confirmation
\* for the invoice found nothing, and the requester has no role
C19_Witness ==
    /\ boots = 1
    /\ \E l \in Listeners : lpc[l] = "recv"
    /\ \E h \in IssuedHashes :
        /\ \E t \in Found(h) : t.pc = "killed"
        /\ \E t \in Absent(h) : t.pc = "done"
        /\ RowsOf(db, h) = {}
        /\ issued[h].user \notin roles

----------------------------------------------------------------------------
(* Two invoices of one requester, each confirmed once, the grant of each
   going through every outcome Discord can give *)

NextGrant ==
    \/ CommandFrame
    \/ OnReady
    \/ Feed
    \/ ListenerFrame
    \/ ReceiveFrame
    \/ TaskStep

SpecGrant == Init /\ [][NextGrant]_vars

\* this step takes task t of the bag to u
Steps(t, u) == u # t /\ u.h = t.h /\ tasks' = Moved(t, u)

(* C20: a task that finds its requester with the role at the check of line
   127 goes to the "already have" send and no role is assigned; one that
   finds the requester without it goes to add_roles, and when add_roles
   returns the role is assigned and the task goes to the "granted" send
   (when the channel was resolved); add_roles is awaited at most once per
   task; after either send the task ends, so no task sends both. *)
C20_GrantIdempotent ==
    [][tasks' # tasks =>
        \A t \in BagToSet(tasks), u \in BagToSet(tasks') :
            Steps(t, u) =>
                /\ u.pc = "send_already" =>
                     (t.pc \in {"start", "fetch_member"} /\ u.user \in roles /\ roles' = roles)
                /\ u.pc = "add_roles" =>
                     (t.pc \in {"start", "fetch_member"} /\ u.user \notin roles /\ roles' = roles)
                /\ u.pc = "send_granted" =>
                     (t.pc = "add_roles" /\ roles' = roles \cup {t.user})
                /\ t.pc = "add_roles" => u.pc \in {"send_granted", "done"}
                /\ t.pc \in {"send_granted", "send_already"} =>
                     (u.pc = "done" /\ roles' = roles)]_vars

\* the requester's second paid invoice is confirmed after the first one gave
\* the role: its task is at the "already have" send, the first task has sent
\* "granted" and ended
C20_Witness ==
    \E t1, t2 \in BagToSet(tasks) :
        /\ t1.h # t2.h
        /\ t1.user = t2.user
        /\ t1.user \in roles
        /\ t1.pc = "done"
        /\ t2.pc = "send_already"

----------------------------------------------------------------------------
(* The gateway session being re-established: discord.py dispatches on_ready
   again, in the same process *)

OnReadyAgain == OnReadyUpTo(MaxReady)
ReceiveReady == BagCardinality(tasks) < MaxTasksListener /\ Receive

NextReady ==
    \/ CommandFirst
    \/ OnReadyAgain
    \/ Feed
    \/ ListenerStep
    \/ ReceiveReady
    \/ TaskStep

SpecReady == Init /\ [][NextReady]_vars

\* the listener coroutines that have been started, and those with a connection
Running == {l \in Listeners : lpc[l] # "none"}
Connected == {l \in Listeners : lpc[l] = "recv"}

(* C21: at most one listener coroutine is running, and at most one is
   connected to the feed, however often on_ready has fired. *)
C21_SingleSubscription == Cardinality(Running) <= 1 /\ Cardinality(Connected) <= 1

----------------------------------------------------------------------------
(* The cleanup loop over more than the expiry time: one invoice that no
   confirmation ever matches, on_ready firing again, iterations that raise *)

\* the last period the clock of the specification reaches
Horizon == MaxPeriodsExpiry * SweepTicks

\* not every iteration raises: one raises only while a later iteration is
\* still to come
CleanupSweep ==
    \E ok \in BOOLEAN :
        /\ ok \/ now + SweepTicks <= Horizon
        /\ CleanupExpiredInvoicesTask(ok)

NextSweeping ==
    \/ CommandExpiry
    \/ OnReadyAgain
    \/ CleanupSweep
    \/ ClockExpiry

\* time passes, and an iteration that is due runs
SweepFairness == WF_vars(ClockExpiry) /\ WF_vars(CleanupSweep)

SpecSweep == Init /\ [][NextSweeping]_vars /\ SweepFairness

(* C22: the cleanup timer is set only by the first on_ready, to start at
   once, and by an iteration, to the time one period after the iteration was
   due, whether the iteration raised or not; a later on_ready leaves it
   alone; and a row that no confirmation matches and that is older than the
   expiry time is eventually deleted, if the loop has been started. *)
C22_SweepKeepsRunning ==
    /\ [][nextSweep' # nextSweep =>
            \/ nextSweep = NoTime /\ nextSweep' = now /\ readyCount = 0
            \/ /\ nextSweep # NoTime
               /\ now = nextSweep
               /\ nextSweep' = nextSweep + SweepTicks
               /\ readyCount' = readyCount]_vars
    /\ \A h \in Hashes :
          (/\ nextSweep # NoTime
           /\ RowsOf(db, h) # {}
           /\ Age(h) > ExpiryTicks
           /\ now < Horizon) ~> (RowsOf(db, h) = {})

\* local time is UTC, on_ready has fired again, and an iteration has deleted
\* the row after it had become older than the expiry time
C22_Witness ==
    /\ tz = 0
    /\ readyCount = MaxReady
    /\ Hash(1) \in purged
    /\ Age(Hash(1)) > ExpiryTicks
    /\ RowsOf(db, Hash(1)) = {}

----------------------------------------------------------------------------
(* /command against a provider that answers with any HTTP status but 201 *)

StatusCodes == 100..MaxStatus

CommandStatus ==
    /\ reply = NoReply
    /\ \E st \in StatusCodes \ {201} :
          DynamicCommandCall(1, CommandInput("response", st, JStr("lnbc"), JStr(Hash(1)), TRUE))

SpecStatus == Init /\ [][CommandStatus]_vars

(* C23: the answer to a status other than 201 is the authentication text
   exactly for 401, the permission text exactly for 403, the endpoint text
   exactly for 404, the server-error text exactly for the codes from 500 on,
   and the generic text exactly for all other codes. *)
C23_ErrorClasses ==
    reply # NoReply =>
        LET st == reply.input.status
            text == reply.text
        IN /\ text = "authentication_failed" <=> st = 401
           /\ text = "permission_denied" <=> st = 403
           /\ text = "endpoint_not_found" <=> st = 404
           /\ text = "server_error" <=> st >= 500
           /\ text = "lnbits_error" <=> (st < 500 /\ st \notin {401, 403, 404})

\* the provider answered 404 and the command answered with the endpoint text,
\* storing nothing
C23_Witness ==
    /\ reply.input.status = 404
    /\ reply.text = "endpoint_not_found"
    /\ db = {}

----------------------------------------------------------------------------
(* Confirmed updates that all carry the payment_hash of the first invoice,
   with every kind of checking_id beside it *)

MatchFrames ==
    {Frame("payment", Payment(c, JStr(Hash(1)), JInt(1000), JStr("success"), JMissing, JMissing)) :
        c \in IdValues}

ReceiveMatch ==
    /\ BagCardinality(tasks) < MaxTasksListener
    /\ \E f \in MatchFrames : Recv(1, f)

NextMatch ==
    \/ Command
    \/ OnReady
    \/ Connect(1)
    \/ ReceiveMatch
    \/ TaskFrame

SpecMatch == Init /\ [][NextMatch]_vars

\* the claim's rule: checking_id when present and non-empty, else payment_hash
ClaimMatchingId(p) ==
    IF p.checking_id.t = "str" /\ p.checking_id.s # ""
    THEN p.checking_id.s
    ELSE p.payment_hash.s

(* C24: a confirmed update is forwarded under its checking_id when that is
   present and non-empty and under its payment_hash otherwise; rows are
   stored under the payment_hash the provider returned, and a task takes only
   the row stored under the id it was forwarded with.  So the update takes
   the row of its payment_hash only if its checking_id is absent, empty or
   that same hash. *)
C24_MatchingId ==
    /\ [][tasks' # tasks \/ db' # db =>
            /\ \A f \in MatchFrames :
                 Recv(1, f) =>
                    /\ tasks' = SpawnTask(ClaimMatchingId(f.payment))
                    /\ ClaimMatchingId(f.payment) = f.payment.payment_hash.s <=>
                          \/ f.payment.checking_id.t \in {"missing", "null"}
                          \/ f.payment.checking_id = JStr("")
                          \/ f.payment.checking_id = f.payment.payment_hash
            /\ \A r \in db \ db' : TakenNow(r.payment_hash)
            /\ \A r \in db' \ db : r.payment_hash \in IssuedHashes']_vars
    /\ [](\A t \in Granting : t.h \in IssuedHashes /\ t.user = issued[t.h].user)

\* updates for the first invoice's payment_hash came with the second
\* invoice's hash and with a foreign id as checking_id: the second invoice's
\* row was taken, the foreign id matched nothing, and the first invoice's row
\* is still in the table
C24_Witness ==
    /\ Found(Hash(2)) # {}
    /\ \E t \in Absent(ForeignHash) : t.pc = "done"
    /\ Found(Hash(1)) = {}
    /\ RowsOf(db, Hash(1)) # {}

----------------------------------------------------------------------------
(* An invoice whose confirmation the feed emits once: to a connected
   listener, or to nobody while the listener is not connected or the process
   is down.  msg keeps the update nobody received. *)

ConfirmationOf(h) ==
    Payment(JMissing, JStr(h), JInt(1000), JStr("success"), JMissing, JMissing)

Unheard == msg # NoPayment

\* the provider pushes the update; no websocket of this bot is there to take it
EmitUnheard ==
    /\ ~Unheard
    /\ Hash(1) \in IssuedHashes
    /\ tasks = EmptyBag
    /\ (\A l \in Listeners : lpc[l] # "recv") \/ ~feedUp
    /\ msg' = ConfirmationOf(Hash(1))
    /\ UNCHANGED <<now, tz, storeVars, loopVars, ret, par, verdict, reply, boots, srv>>

\* the provider pushes the update to the connected listener
EmitHeard ==
    /\ ~Unheard
    /\ tasks = EmptyBag
    /\ Recv(1, Frame("payment", ConfirmationOf(Hash(1))))

NextOutage ==
    \/ CommandBeforeRestart
    \/ OnReady
    \/ Feed
    \/ ListenerFrame
    \/ EmitUnheard
    \/ EmitHeard
    \/ TaskExpiry
    \/ Cleanup
    \/ Clock
    \/ Restart

SpecOutage == Init /\ [][NextOutage]_vars

(* C25: a confirmation emitted while no listener was connected is never
   processed: whatever the bot does afterwards (reconnecting, on_ready, a
   restart), no confirmation task exists for its id, its requester has no
   role, and its row is in the table unless cleanup has deleted it. *)
C25_NoCatchUp ==
    Unheard =>
        LET h == MatchingId(msg).s IN
        /\ \A t \in BagToSet(tasks) : t.h # h
        /\ issued[h].user \notin roles
        /\ RowsOf(db, h) # {} \/ h \in purged

\* the confirmation was emitted while the bot was not connected; the process
\* has been restarted since, the listener is connected again, and the row is
\* still waiting
C25_Witness ==
    /\ Unheard
    /\ boots = 1
    /\ feedUp
    /\ lpc[1] = "recv"
    /\ RowsOf(db, Hash(1)) # {}

----------------------------------------------------------------------------
(* server.py: the web server's request threads starting and stopping the bot.
   A thread object is "unborn", "created" (line 74), "started" (run_bot not
   yet at Popen), "running" (its subprocess is alive), "draining" (its
   subprocess has exited, run_bot is in its finally) or "ended". *)

botVars == <<now, tz, storeVars, loopVars, ret, par, msg, verdict, reply, boots>>

\* Thread.is_alive()
IsAlive(t) == srv.thread[t] \in {"started", "running", "draining"}

\* bot_process.poll() is None, for the subprocess of thread t
ProcessRunning(t) == srv.thread[t] = "running"

Answered(r, text) == [srv EXCEPT !.req[r] = "idle", !.answer[r] = text]

\* line 68: bot_thread and bot_thread.is_alive()
AlreadyRunning == srv.bot_thread # 0 /\ IsAlive(srv.bot_thread)

\* lines 68-72: the two tests of start_bot
StartBotCheck(r, config) ==
    /\ srv.req[r] = "idle"
    /\ srv' = IF AlreadyRunning THEN Answered(r, "already_running")
              ELSE IF ~config THEN Answered(r, "no_configuration")
              ELSE [srv EXCEPT !.req[r] = "create"]
    /\ UNCHANGED botVars

\* line 74: bot_thread = threading.Thread(target=run_bot, daemon=True)
StartBotCreate(r) ==
    /\ srv.req[r] = "create"
    /\ \E t \in BotThreads :
          /\ srv.thread[t] = "unborn"
          /\ \A x \in BotThreads : x < t => srv.thread[x] # "unborn"
          /\ srv' = [srv EXCEPT !.thread[t] = "created", !.bot_thread = t,
                                !.req[r] = "start"]
    /\ UNCHANGED botVars

\* lines 75-77: bot_thread.start() on whatever the global names now; starting
\* a thread a second time raises RuntimeError
StartBotStart(r) ==
    /\ srv.req[r] = "start"
    /\ srv' = IF srv.thread[srv.bot_thread] = "created"
              THEN [Answered(r, "started") EXCEPT !.thread[srv.bot_thread] = "started"]
              ELSE Answered(r, "error")
    /\ UNCHANGED botVars

\* run_bot, lines 41-51: bot_process = subprocess.Popen(...)
RunBotPopen(t) ==
    /\ srv.thread[t] = "started"
    /\ srv' = [srv EXCEPT !.thread[t] = "running", !.bot_process = t]
    /\ UNCHANGED botVars

\* the subprocess exits by itself; its stdout closes (line 54)
ProcessExits(t) ==
    /\ ProcessRunning(t)
    /\ srv' = [srv EXCEPT !.thread[t] = "draining"]
    /\ UNCHANGED botVars

\* run_bot, lines 59-62: the finally, then the thread ends
RunBotReturns(t) ==
    /\ srv.thread[t] = "draining"
    /\ srv' = [srv EXCEPT !.thread[t] = "ended"]
    /\ UNCHANGED botVars

\* stop_bot, lines 79-99: SIGINT, then SIGKILL after 5 s, to bot_process
StopBot(r) ==
    /\ srv.req[r] = "idle"
    /\ srv' = IF srv.bot_process # 0 /\ ProcessRunning(srv.bot_process)
              THEN [Answered(r, "stopped") EXCEPT !.thread[srv.bot_process] = "draining"]
              ELSE Answered(r, "not_running")
    /\ UNCHANGED botVars

StartRequest ==
    \E r \in Handlers :
        \/ \E config \in BOOLEAN : StartBotCheck(r, config)
        \/ StartBotCreate(r)
        \/ StartBotStart(r)
StopRequest == \E r \in Handlers : StopBot(r)
BotThread == \E t \in BotThreads : RunBotPopen(t) \/ ProcessExits(t) \/ RunBotReturns(t)

NextServer == StartRequest \/ StopRequest \/ BotThread

SpecServer == Init /\ [][NextServer]_vars

RunningBots == {t \in BotThreads : ProcessRunning(t)}

(* C26: whatever the interleaving of start and stop requests, at most one
   bot subprocess is running at any time. *)
C26_SingleBot == Cardinality(RunningBots) <= 1

====
